---------------------------- MODULE Spec2Model ----------------------------
(***************************************************************************)
(* A model of the chirpy HTTP server (database-backed revision): the       *)
(* atomic hit counter shared by all requests, the admin metrics and reset  *)
(* handlers, the chirp validation handler with its profanity filter, and   *)
(* the user-creation handler.                                              *)
(*                                                                         *)
(* A Go string is modelled as the sequence of its Unicode code points      *)
(* (every string the handlers see comes out of encoding/json and is valid  *)
(* UTF-8); the builtin len() is the number of bytes of its UTF-8 encoding. *)
(***************************************************************************)
EXTENDS Integers, Sequences, FiniteSets, TLC

VARIABLES
    fileserverHits,   \* apiConfig.fileserverHits, an atomic.Int32
    Platform,         \* apiConfig.Platform, read from the environment once
    users,            \* the rows of the users table behind apiConfig.db
    conn,             \* one record per connection: the request being served
    hist,             \* history of the counter since its last Store(0)
    accepted,         \* history: requests accepted so far
    bursts            \* history: request bursts served so far

vars == <<fileserverHits, Platform, users, conn, hist, accepted, bursts>>

---------------------------------------------------------------------------
(* Bounds of the model.                                                    *)

MaxConns == 2          \* connections served concurrently
MaxRequests == 4       \* requests accepted in one behaviour
MaxBursts == 1         \* bursts of back-to-back /app/ requests
MaxTokens == 2         \* space-separated tokens of a generated chirp
LenSlack == 1          \* generated lengths lie this close to the limit

---------------------------------------------------------------------------
(* Runes and strings.                                                      *)

\* The space cleanChirp splits and joins on, and the star of "****".
Space == 32
Star == 42

\* The other runes the model draws strings from: punctuation, a digit, and
\* runes of each longer UTF-8 width.
Rune == [ bang    |-> 33,      \* "!"
          hyphen  |-> 45,      \* "-"
          dot     |-> 46,      \* "."
          one     |-> 49,      \* "1"
          half    |-> 189,     \* U+00BD, category No: unicode.IsNumber holds
          upperE  |-> 201,     \* U+00C9, a letter; its lower case is U+00E9
          lowerE  |-> 233,     \* U+00E9, a letter, two bytes
          euro    |-> 8364,    \* U+20AC, a symbol, three bytes
          kelvin  |-> 8490,    \* U+212A, a letter whose lower case is ASCII k
          grin    |-> 128512 ] \* U+1F600, a symbol, four bytes

\* unicode.IsLetter on the runes of the model.
IsLetter(r) == \/ r \in 65..90
               \/ r \in 97..122
               \/ r \in {Rune.upperE, Rune.lowerE, Rune.kelvin}

\* unicode.IsNumber on the runes of the model.
IsNumber(r) == r \in 48..57 \/ r = Rune.half

\* unicode.ToLower, which strings.ToLower maps over the runes.
ToLowerRune(r) == IF r \in 65..90 THEN r + 32
                  ELSE IF r = Rune.upperE THEN Rune.lowerE
                  ELSE IF r = Rune.kelvin THEN 107
                  ELSE r

ToLower(s) == [i \in 1..Len(s) |-> ToLowerRune(s[i])]

\* The number of bytes utf8 encodes a rune in.
RuneLen(r) == IF r < 128 THEN 1
              ELSE IF r < 2048 THEN 2
              ELSE IF r < 65536 THEN 3
              ELSE 4

\* The builtin len of a string: its length in bytes (summed by halves, which
\* keeps the evaluation shallow on long strings).
RECURSIVE len(_)
len(s) ==
    IF s = <<>> THEN 0
    ELSE IF Len(s) = 1 THEN RuneLen(s[1])
    ELSE LET h == Len(s) \div 2
         IN  len(SubSeq(s, 1, h)) + len(SubSeq(s, h + 1, Len(s)))

\* strings.Split(s, " "): with n separators in s, the n + 1 pieces before,
\* between and after them, empty ones included; the empty string gives one
\* empty piece. Piece k starts after separator k - 1 and ends before
\* separator k.
SepCount(s) == Cardinality({p \in 1..Len(s) : s[p] = Space})

SepIndex(s, k) ==
    IF k = 0 THEN 0
    ELSE IF k > SepCount(s) THEN Len(s) + 1
    ELSE CHOOSE p \in 1..Len(s) :
            /\ s[p] = Space
            /\ Cardinality({q \in 1..p : s[q] = Space}) = k

Split(s) ==
    [k \in 1..(SepCount(s) + 1) |->
        SubSeq(s, SepIndex(s, k - 1) + 1, SepIndex(s, k) - 1)]

\* A faulty Join, which puts the separator twice between neighbours.
RECURSIVE JoinWith_TwoSpaces(_, _)
JoinWith_TwoSpaces(words, sep) ==
    IF words = <<>> THEN <<>>
    ELSE IF Len(words) = 1 THEN words[1]
    ELSE LET h == Len(words) \div 2
         IN  JoinWith_TwoSpaces(SubSeq(words, 1, h), sep) \o sep \o sep
                \o JoinWith_TwoSpaces(SubSeq(words, h + 1, Len(words)), sep)

\* strings.Join(words, sep): the words with sep between neighbours (joined
\* by halves).
RECURSIVE Join(_, _)
Join(words, sep) ==
    IF words = <<>> THEN <<>>
    ELSE IF Len(words) = 1 THEN words[1]
    ELSE LET h == Len(words) \div 2
         IN  Join(SubSeq(words, 1, h), sep) \o sep
                \o Join(SubSeq(words, h + 1, Len(words)), sep)

---------------------------------------------------------------------------
(* The profanity filter.                                                   *)

kerfuffle == <<107, 101, 114, 102, 117, 102, 102, 108, 101>>
sharbert == <<115, 104, 97, 114, 98, 101, 114, 116>>
fornax == <<102, 111, 114, 110, 97, 120>>

profanity == <<kerfuffle, sharbert, fornax>>

\* The replacement token "****".
Censored == <<Star, Star, Star, Star>>

\* strings.Map dropping every rune that is neither a letter nor a number.
stripPunct(word) == SelectSeq(word, LAMBDA r : IsLetter(r) \/ IsNumber(r))

\* A faulty round, which compares without lowercasing.
cleanWord_NoLower(word) ==
    IF \E p \in 1..Len(profanity) : stripPunct(word) = profanity[p]
    THEN Censored
    ELSE word

\* One round of cleanChirp's loop: the value words[i] holds after it.
cleanWord(word) ==
    LET lowerWord == ToLower(stripPunct(word))
    IN  IF \E p \in 1..Len(profanity) : lowerWord = profanity[p]
        THEN Censored
        ELSE word

\* A faulty cleanChirp, which re-joins with the faulty Join.
cleanChirp_DoubleJoin(body) ==
    LET words == Split(body)
    IN  JoinWith_TwoSpaces([i \in 1..Len(words) |-> cleanWord(words[i])], <<Space>>)

cleanChirp(body) ==
    LET words == Split(body)
    IN  Join([i \in 1..Len(words) |-> cleanWord(words[i])], <<Space>>)

---------------------------------------------------------------------------
(* The hit counter: sync/atomic's Int32.                                   *)

MaxInt32 == 2147483647
MinInt32 == -MaxInt32 - 1

\* atomic.Int32.Add(delta) for delta >= 0: two's complement addition, which
\* wraps from MaxInt32 to MinInt32.
AddInt32(x, delta) ==
    IF x > MaxInt32 - delta
    THEN MinInt32 + (delta - (MaxInt32 - x) - 1)
    ELSE x + delta

\* What has happened to the counter since the last Store(0), or since the
\* start when there was none: the Add(1) calls of the requests followed one
\* by one, the bursts of BurstSize Add(1) calls each, whether a Store(0) has
\* happened at all and the value it overwrote, and whether a reset has
\* returned with no /app/ request begun since.
NoHistory ==
    [adds |-> 0, burstAdds |-> 0, stored |-> FALSE, erased |-> 0, quiet |-> FALSE]

\* The requests of one burst.
BurstSize == MaxInt32

\* The counter holds exactly the number of Add(1) calls since the last
\* Store(0), which is hist.burstAdds * BurstSize + hist.adds (two bursts or
\* more exceed every Int32).
HitsAreTheAdds ==
    /\ fileserverHits >= 0
    /\ \/ hist.burstAdds = 0 /\ hist.adds = fileserverHits
       \/ hist.burstAdds = 1 /\ hist.adds = fileserverHits - BurstSize

---------------------------------------------------------------------------
(* Requests and responses.                                                 *)

\* The limit handlerValidateChirp compares len(req.Body) with.
MaxChirpLen == 140

\* A request body as encoding/json sees it: "garbage" is not JSON (an empty
\* body included), "mistyped" is a JSON object whose field holds a number,
\* "absent" is a JSON object without the field, and "string" is a JSON object
\* whose field holds the string val. For garbage, val is the raw text.
Payload(kind, val) == [kind |-> kind, val |-> val]

NoPayload == Payload("garbage", <<>>)

\* json.NewDecoder(r.Body).Decode(&req) into a struct with one string field:
\* the error, and the value the field holds afterwards (a field the document
\* does not mention keeps its zero value, the empty string).
Decode(payload) ==
    [ err   |-> payload.kind \in {"garbage", "mistyped"},
      field |-> IF payload.kind = "string" THEN payload.val ELSE <<>> ]

\* http.ResponseWriter: the header map's Content-Type, and what has gone out.
\* WriteHeader sends the status and the headers set so far, once; Write sends
\* the status 200 first when none has been sent.
NewWriter ==
    [ wroteHeader |-> FALSE, status |-> 0, header |-> "", sent |-> "", body |-> <<>> ]

SetContentType(w, v) == [w EXCEPT !.header = v]

WriteHeader(w, code) ==
    IF w.wroteHeader THEN w
    ELSE [w EXCEPT !.wroteHeader = TRUE, !.status = code, !.sent = w.header]

Write(w, data) == [WriteHeader(w, 200) EXCEPT !.body = Append(@, data)]

respondWithJSON(w, code, payload) ==
    Write(WriteHeader(SetContentType(w, "application/json"), code), payload)

errorResponse(msg) == [error |-> msg]

\* A request path, as its segments: "/app/" is <<"app", "">>, "/" is <<"">>.
\* http.ServeMux picks the longest registered pattern that matches: a
\* pattern ending in "/" matches every path under it, another only itself.
\* A path that is a pattern short of its final "/" ("/app") matches no
\* pattern exactly: the mux itself redirects it to the pattern.
ServeMux(path) ==
    IF Len(path) >= 2 /\ path[1] = "app" THEN "/app/"
    ELSE IF path = <<"app">> THEN "/app"
    ELSE IF path = <<"api", "healthz">> THEN "/api/healthz"
    ELSE IF path = <<"admin", "metrics">> THEN "/admin/metrics"
    ELSE IF path = <<"admin", "reset">> THEN "/admin/reset"
    ELSE IF path = <<"api", "users">> THEN "/api/users"
    ELSE IF path = <<"api", "validate_chirp">> THEN "/api/validate_chirp"
    ELSE "/"

\* A connection: where its request stands, the request, the pattern the mux
\* matched, the response writer, and what the handler did on the way (calls
\* made, what the store returned, what the history was when it read).
Idle ==
    [ pc |-> "idle", path |-> <<>>, route |-> "", method |-> "",
      payload |-> NoPayload, w |-> NewWriter, cleanCalls |-> 0,
      createCalls |-> 0, stored |-> <<>>, sawQuiet |-> FALSE, sawFresh |-> FALSE ]

Routed(path, method, payload) ==
    [Idle EXCEPT !.pc = "routed", !.path = path, !.route = ServeMux(path),
                 !.method = method, !.payload = payload]

Conns == 1..MaxConns

---------------------------------------------------------------------------
(* POST /api/validate_chirp.                                               *)

\* A faulty handler, which cleans the chirp first and measures the result.
handlerValidateChirp_CleanFirst(c) ==
    LET req == Decode(c.payload)
    IN  IF c.method # "POST"
        THEN [c EXCEPT !.pc = "done", !.w = WriteHeader(c.w, 405)]
        ELSE IF req.err
        THEN [c EXCEPT !.pc = "done",
                !.w = respondWithJSON(c.w, 400, errorResponse("Something went wrong"))]
        ELSE IF len(cleanChirp(req.field)) > MaxChirpLen
        THEN [c EXCEPT !.pc = "done", !.cleanCalls = @ + 1,
                !.w = respondWithJSON(c.w, 400, errorResponse("Chirp is too long"))]
        ELSE [c EXCEPT !.pc = "done", !.cleanCalls = @ + 1,
                !.w = respondWithJSON(c.w, 200, [cleaned_body |-> cleanChirp(req.field)])]

\* A faulty handler, which measures the raw document before decoding it.
handlerValidateChirp_LengthFirst(c) ==
    LET req == Decode(c.payload)
    IN  IF c.method # "POST"
        THEN [c EXCEPT !.pc = "done", !.w = WriteHeader(c.w, 405)]
        ELSE IF len(c.payload.val) > MaxChirpLen
        THEN [c EXCEPT !.pc = "done",
                !.w = respondWithJSON(c.w, 400, errorResponse("Chirp is too long"))]
        ELSE IF req.err
        THEN [c EXCEPT !.pc = "done",
                !.w = respondWithJSON(c.w, 400, errorResponse("Something went wrong"))]
        ELSE [c EXCEPT !.pc = "done", !.cleanCalls = @ + 1,
                !.w = respondWithJSON(c.w, 200, [cleaned_body |-> cleanChirp(req.field)])]

\* The connection after handlerValidateChirp has run on it.
handlerValidateChirp(c) ==
    LET req == Decode(c.payload)
    IN  IF c.method # "POST"
        THEN [c EXCEPT !.pc = "done", !.w = WriteHeader(c.w, 405)]
        ELSE IF req.err
        THEN [c EXCEPT !.pc = "done",
                !.w = respondWithJSON(c.w, 400, errorResponse("Something went wrong"))]
        ELSE IF len(req.field) > MaxChirpLen
        THEN [c EXCEPT !.pc = "done",
                !.w = respondWithJSON(c.w, 400, errorResponse("Chirp is too long"))]
        ELSE [c EXCEPT !.pc = "done", !.cleanCalls = @ + 1,
                !.w = respondWithJSON(c.w, 200, [cleaned_body |-> cleanChirp(req.field)])]

ServeValidateChirp(i) ==
    /\ conn[i].pc = "routed"
    /\ conn[i].route = "/api/validate_chirp"
    /\ conn' = [conn EXCEPT ![i] = handlerValidateChirp(conn[i])]
    /\ UNCHANGED <<fileserverHits, Platform, users, hist, accepted, bursts>>

---------------------------------------------------------------------------
(* /app/: the file server behind middlewareMetricsInc.                     *)

\* next.ServeHTTP for the wrapped handler: http.StripPrefix and
\* http.FileServer answer with the file under the working directory, or 404
\* when there is none.
ServeFile(w, path, found) ==
    IF found
    THEN Write(w, [file |-> Tail(path)])
    ELSE Write(WriteHeader(w, 404), [text |-> "404 page not found"])

\* middlewareMetricsInc: Add(1), then the wrapped handler, which touches
\* nothing another request can see.
middlewareMetricsInc(i) ==
    /\ conn[i].pc = "routed"
    /\ conn[i].route = "/app/"
    /\ fileserverHits' = AddInt32(fileserverHits, 1)
    /\ hist' = [hist EXCEPT !.adds = @ + 1]
    /\ \E found \in BOOLEAN :
          conn' = [conn EXCEPT ![i].pc = "done",
                     ![i].w = ServeFile(conn[i].w, conn[i].path, found)]
    /\ UNCHANGED <<Platform, users, accepted, bursts>>

\* A run of BurstSize requests to /app/ served back to back on connections
\* of their own, each through middlewareMetricsInc to its end: BurstSize
\* Add(1) calls, taken as one step.
AppBurst ==
    /\ bursts < MaxBursts
    /\ fileserverHits' = AddInt32(fileserverHits, BurstSize)
    /\ hist' = [hist EXCEPT !.burstAdds = @ + 1, !.quiet = FALSE]
    /\ bursts' = bursts + 1
    /\ UNCHANGED <<Platform, users, conn, accepted>>

---------------------------------------------------------------------------
(* GET /api/healthz, GET /admin/metrics, /.                                *)

Healthz(i) ==
    /\ conn[i].pc = "routed"
    /\ conn[i].route = "/api/healthz"
    /\ conn' = [conn EXCEPT ![i].pc = "done",
                  ![i].w = IF conn[i].method # "GET"
                           THEN WriteHeader(conn[i].w, 405)
                           ELSE Write(WriteHeader(
                                    SetContentType(conn[i].w, "text/plain; charset=utf-8"),
                                    200), [text |-> "OK"])]
    /\ UNCHANGED <<fileserverHits, Platform, users, hist, accepted, bursts>>

\* handlerMetrics: Load, and the page with the value loaded. The connection
\* notes what the history was at the Load: whether the request came in after
\* a reset had returned and no /app/ request has begun since, and whether no
\* Add has followed the last Store(0).
handlerMetrics(c) ==
    [c EXCEPT !.pc = "done",
              !.sawQuiet = c.sawQuiet /\ hist.quiet,
              !.sawFresh = hist.stored /\ hist.adds = 0 /\ hist.burstAdds = 0,
              !.w = Write(SetContentType(c.w, "text/plain; charset=utf-8"),
                          [visited |-> fileserverHits])]

AdminMetrics(i) ==
    /\ conn[i].pc = "routed"
    /\ conn[i].route = "/admin/metrics"
    /\ conn' = [conn EXCEPT ![i] =
                  IF conn[i].method # "GET"
                  THEN [conn[i] EXCEPT !.pc = "done", !.w = WriteHeader(conn[i].w, 405)]
                  ELSE handlerMetrics(conn[i])]
    /\ UNCHANGED <<fileserverHits, Platform, users, hist, accepted, bursts>>

\* The mux's own answer to "/app": 301 to "/app/", with no handler called.
MuxRedirect(i) ==
    /\ conn[i].pc = "routed"
    /\ conn[i].route = "/app"
    /\ conn' = [conn EXCEPT ![i].pc = "done",
                  ![i].w = Write(WriteHeader(conn[i].w, 301), [location |-> "/app/"])]
    /\ UNCHANGED <<fileserverHits, Platform, users, hist, accepted, bursts>>

\* http.Redirect(w, r, "/app/", http.StatusFound).
Root(i) ==
    /\ conn[i].pc = "routed"
    /\ conn[i].route = "/"
    /\ conn' = [conn EXCEPT ![i].pc = "done",
                  ![i].w = Write(WriteHeader(conn[i].w, 302), [location |-> "/app/"])]
    /\ UNCHANGED <<fileserverHits, Platform, users, hist, accepted, bursts>>

---------------------------------------------------------------------------
(* POST /admin/reset.                                                      *)

\* A faulty reset, which leaves the counter as it is.
AdminReset_NoStore(i) ==
    /\ conn[i].pc = "routed"
    /\ conn[i].route = "/admin/reset"
    /\ IF conn[i].method # "POST"
       THEN /\ conn' = [conn EXCEPT ![i].pc = "done",
                          ![i].w = WriteHeader(conn[i].w, 405)]
            /\ UNCHANGED <<fileserverHits, hist>>
       ELSE /\ UNCHANGED fileserverHits
            /\ hist' = [hist EXCEPT !.adds = 0, !.burstAdds = 0, !.stored = TRUE,
                                    !.erased = fileserverHits]
            /\ conn' = [conn EXCEPT ![i].pc = "stored"]
    /\ UNCHANGED <<Platform, users, accepted, bursts>>

\* The route's method check, and handlerReset's first statement: Store(0).
AdminReset(i) ==
    /\ conn[i].pc = "routed"
    /\ conn[i].route = "/admin/reset"
    /\ IF conn[i].method # "POST"
       THEN /\ conn' = [conn EXCEPT ![i].pc = "done",
                          ![i].w = WriteHeader(conn[i].w, 405)]
            /\ UNCHANGED <<fileserverHits, hist>>
       ELSE /\ fileserverHits' = 0
            /\ hist' = [hist EXCEPT !.adds = 0, !.burstAdds = 0, !.stored = TRUE,
                                    !.erased = fileserverHits]
            /\ conn' = [conn EXCEPT ![i].pc = "stored"]
    /\ UNCHANGED <<Platform, users, accepted, bursts>>

\* The rest of handlerReset: the platform check, DeleteAllUsers (which may
\* fail), and the response. A reset that answered 200 has returned.
handlerResetRest(i) ==
    /\ conn[i].pc = "stored"
    /\ IF Platform # "dev"
       THEN /\ conn' = [conn EXCEPT ![i].pc = "done",
                          ![i].w = respondWithJSON(WriteHeader(conn[i].w, 403), 403,
                                                   errorResponse("Forbidden"))]
            /\ UNCHANGED <<users, hist>>
       ELSE \E err \in BOOLEAN :
              IF err
              THEN /\ conn' = [conn EXCEPT ![i].pc = "done",
                                 ![i].w = respondWithJSON(conn[i].w, 500,
                                            errorResponse("Failed to delete users"))]
                   /\ UNCHANGED <<users, hist>>
              ELSE /\ users' = {}
                   /\ conn' = [conn EXCEPT ![i].pc = "done",
                                 ![i].w = respondWithJSON(conn[i].w, 200,
                                            [status |-> "Metrics and users reset"])]
                   /\ hist' = [hist EXCEPT !.quiet = TRUE]
    /\ UNCHANGED <<fileserverHits, Platform, accepted, bursts>>

---------------------------------------------------------------------------
(* POST /api/users.                                                        *)

\* The store. An id it generates is one no row has: the model takes the
\* least such number. The clock readings it can stamp a row with:
NewUUID(table) ==
    IF table = {} THEN 1
    ELSE 1 + (CHOOSE m \in {r.ID : r \in table} : \A r \in table : r.ID <= m)

Times == {[sec |-> 1700000000, nsec |-> 0], [sec |-> 1700000000, nsec |-> 999]}

\* database.Queries.CreateUser(ctx, email): it fails, or it inserts and
\* returns a row with a fresh id and the time of insertion.
CreateUser(table, email) ==
    {[err |-> TRUE, row |-> <<>>]}
    \cup {[err |-> FALSE,
           row |-> [ID |-> NewUUID(table), CreatedAt |-> t, UpdatedAt |-> t,
                    Email |-> email]] : t \in Times}

\* uuid.UUID.String and time.Time.Format(time.RFC3339): the text of an id,
\* and a time to the second (RFC3339 has no fraction).
UUIDString(id) == [uuid |-> id]

FormatRFC3339(t) == [rfc3339 |-> t.sec]

\* A faulty handler, which calls the store again after a failure.
handlerCreateUser_Retry(c, res) ==
    LET params == Decode(c.payload)
    IN  IF c.method # "POST"
        THEN [c EXCEPT !.pc = "done", !.w = WriteHeader(c.w, 405)]
        ELSE IF params.err
        THEN [c EXCEPT !.pc = "done",
                !.w = respondWithJSON(c.w, 400, errorResponse("Invalid request"))]
        ELSE IF res.err
        THEN [c EXCEPT !.pc = "done", !.createCalls = @ + 2, !.stored = res,
                !.w = respondWithJSON(c.w, 500, errorResponse("Failed to create user"))]
        ELSE [c EXCEPT !.pc = "done", !.createCalls = @ + 1, !.stored = res,
                !.w = respondWithJSON(c.w, 201,
                        [ id         |-> UUIDString(res.row.ID),
                          created_at |-> FormatRFC3339(res.row.CreatedAt),
                          updated_at |-> FormatRFC3339(res.row.UpdatedAt),
                          email      |-> res.row.Email ])]

\* The connection after handlerCreateUser, given what the store call (when
\* one is made) returns.
handlerCreateUser(c, res) ==
    LET params == Decode(c.payload)
    IN  IF c.method # "POST"
        THEN [c EXCEPT !.pc = "done", !.w = WriteHeader(c.w, 405)]
        ELSE IF params.err
        THEN [c EXCEPT !.pc = "done",
                !.w = respondWithJSON(c.w, 400, errorResponse("Invalid request"))]
        ELSE IF res.err
        THEN [c EXCEPT !.pc = "done", !.createCalls = @ + 1, !.stored = res,
                !.w = respondWithJSON(c.w, 500, errorResponse("Failed to create user"))]
        ELSE [c EXCEPT !.pc = "done", !.createCalls = @ + 1, !.stored = res,
                !.w = respondWithJSON(c.w, 201,
                        [ id         |-> UUIDString(res.row.ID),
                          created_at |-> FormatRFC3339(res.row.CreatedAt),
                          updated_at |-> FormatRFC3339(res.row.UpdatedAt),
                          email      |-> res.row.Email ])]

\* The handler and the store together: the row a successful call leaves in
\* the table.
ServeCreateUser(i) ==
    /\ conn[i].pc = "routed"
    /\ conn[i].route = "/api/users"
    /\ \E res \in CreateUser(users, Decode(conn[i].payload).field) :
          LET c == handlerCreateUser(conn[i], res)
          IN  /\ conn' = [conn EXCEPT ![i] = c]
              /\ users' = IF c.createCalls > 0 /\ ~res.err
                          THEN users \cup {res.row}
                          ELSE users
    /\ UNCHANGED <<fileserverHits, Platform, hist, accepted, bursts>>

---------------------------------------------------------------------------
(* The chirps the validation handler is tried on.                          *)

Repeat(r, n) == [i \in 1..n |-> r]

\* Tokens: empty, the three denied words in several spellings, near misses,
\* the replacement token itself, and punctuation.
Words ==
    { <<>>,
      kerfuffle,
      <<83, 104, 97, 114, 98, 101, 114, 116, Rune.bang>>,        \* Sharbert!
      <<70, 79, 82, 78, 65, 88>>,                                \* FORNAX
      <<Rune.kelvin>> \o Tail(kerfuffle),                        \* U+212A erfuffle
      <<107, 101, 114, Rune.hyphen, 102, 117, 102, 102, 108, 101>>, \* ker-fuffle
      kerfuffle \o <<105, 110, 103>>,                            \* kerfuffleing
      fornax \o <<Rune.one>>,                                    \* fornax1
      fornax \o <<Rune.half>>,                                   \* fornax(1/2)
      Censored,
      <<Rune.dot, Rune.dot, Rune.dot>>,
      <<Rune.lowerE, 97>> }

RECURSIVE WordLists(_)
WordLists(n) ==
    IF n = 0 THEN {<<>>}
    ELSE LET shorter == WordLists(n - 1)
         IN  shorter \cup {Append(ws, x) : ws \in {l \in shorter : Len(l) = n - 1}, x \in Words}

TokenBodies == {Join(ws, <<Space>>) : ws \in WordLists(MaxTokens) \ {<<>>}}

\* Lengths, in runes, whose byte count in some UTF-8 width is within
\* LenSlack runes of the limit.
PadLens ==
    {n \in 1..(MaxChirpLen + LenSlack) :
        \E width \in 1..4 :
            /\ n * width >= MaxChirpLen - LenSlack * width
            /\ n * width <= MaxChirpLen + LenSlack * width}

PadRunes == {97, Space, Rune.lowerE, Rune.euro, Rune.grin}

PadBodies ==
    {Repeat(r, n) : r \in PadRunes, n \in PadLens}
    \cup {kerfuffle \o <<Space>> \o Repeat(97, n - 10) :
            n \in (MaxChirpLen - LenSlack)..(MaxChirpLen + LenSlack)}

Bodies == TokenBodies \cup PadBodies

ChirpPayloads ==
    {Payload("string", b) : b \in Bodies}
    \cup {Payload("absent", <<>>), Payload("mistyped", <<>>), NoPayload,
          Payload("garbage", Repeat(97, MaxChirpLen + LenSlack))}

Platforms == {"dev", ""}

Methods == {"GET", "POST", "DELETE"}

\* One validation request, routed and about to be handled.
InitChirp ==
    /\ fileserverHits = 0
    /\ Platform \in Platforms
    /\ users = {}
    /\ \E m \in Methods, p \in ChirpPayloads :
          conn = [i \in Conns |->
                    IF i = 1 THEN Routed(<<"api", "validate_chirp">>, m, p) ELSE Idle]
    /\ hist = NoHistory
    /\ accepted = 1
    /\ bursts = 0

NextChirp == \E i \in Conns : ServeValidateChirp(i)

SpecChirp == InitChirp /\ [][NextChirp]_vars

---------------------------------------------------------------------------
(* The requests the user-creation handler is tried on.                     *)

Emails == {<<97, 64, 98>>, <<>>}     \* "a@b" and the empty string

UserPayloads ==
    {Payload("string", e) : e \in Emails}
    \cup {Payload("absent", <<>>), Payload("mistyped", <<>>), NoPayload}

\* The tables the store may hold when the request arrives.
Tables ==
    {{}} \cup {{[ID |-> 1, CreatedAt |-> t, UpdatedAt |-> t, Email |-> e]} :
                  t \in Times, e \in Emails}

\* One request to /api/users, routed and about to be handled.
InitUsers ==
    /\ fileserverHits = 0
    /\ Platform \in Platforms
    /\ users \in Tables
    /\ \E m \in Methods, p \in UserPayloads :
          conn = [i \in Conns |->
                    IF i = 1 THEN Routed(<<"api", "users">>, m, p) ELSE Idle]
    /\ hist = NoHistory
    /\ accepted = 1
    /\ bursts = 0

NextUsers == \E i \in Conns : ServeCreateUser(i)

SpecUsers == InitUsers /\ [][NextUsers]_vars

---------------------------------------------------------------------------
(* The server: main().                                                     *)

\* The requests clients send: a GET for a file, for "/app" and for the root, and a GET
\* and a POST for every route that looks at the method; the users and the
\* validation routes get a document along.
Requests ==
    {[path |-> <<"app", "index.html">>, method |-> "GET", payload |-> NoPayload],
     [path |-> <<"app">>, method |-> "GET", payload |-> NoPayload],
     [path |-> <<"">>, method |-> "GET", payload |-> NoPayload]}
    \cup [path : {<<"api", "healthz">>, <<"admin", "metrics">>, <<"admin", "reset">>},
          method : {"GET", "POST"}, payload : {NoPayload}]
    \cup [path : {<<"api", "users">>},
          method : {"GET", "POST"}, payload : {Payload("string", <<97>>)}]
    \cup [path : {<<"api", "validate_chirp">>},
          method : {"GET", "POST"}, payload : {Payload("string", kerfuffle \o <<Space, 97>>)}]

\* The server accepts a request on the first free connection and the mux
\* routes it.
Accept(i) ==
    /\ conn[i].pc \in {"idle", "done"}
    /\ \A j \in 1..(i - 1) : conn[j].pc \notin {"idle", "done"}
    /\ accepted < MaxRequests
    /\ \E r \in Requests :
          /\ conn' = [conn EXCEPT ![i] =
                        [Routed(r.path, r.method, r.payload)
                            EXCEPT !.sawQuiet = hist.quiet /\ ServeMux(r.path) # "/app/"]]
          /\ hist' = IF ServeMux(r.path) = "/app/"
                     THEN [hist EXCEPT !.quiet = FALSE]
                     ELSE hist
    /\ accepted' = accepted + 1
    /\ UNCHANGED <<fileserverHits, Platform, users, bursts>>

\* apiCfg := &apiConfig{db: dbQueries, Platform: os.Getenv("PLATFORM")}: the
\* counter's zero value is 0. The users table starts empty.
Init ==
    /\ fileserverHits = 0
    /\ Platform \in Platforms
    /\ users = {}
    /\ conn = [i \in Conns |-> Idle]
    /\ hist = NoHistory
    /\ accepted = 0
    /\ bursts = 0

Next ==
    \E i \in Conns :
       \/ Accept(i)
       \/ middlewareMetricsInc(i)
       \/ Healthz(i)
       \/ AdminMetrics(i)
       \/ AdminReset(i)
       \/ handlerResetRest(i)
       \/ MuxRedirect(i)
       \/ Root(i)
       \/ ServeCreateUser(i)
       \/ ServeValidateChirp(i)

Spec == Init /\ [][Next]_vars

\* The server over a long run: the requests followed one by one, among
\* bursts of requests to /app/.
NextLongRun == Next \/ AppBurst

SpecLongRun == Init /\ [][NextLongRun]_vars

---------------------------------------------------------------------------
(* What a finished validation request looks like from outside.             *)

ValidateDone(c) == c.pc = "done" /\ c.route = "/api/validate_chirp"

\* The request was a POST whose document decodes into a chirpRequest.
DecodablePost(c) == c.method = "POST" /\ c.payload.kind \in {"string", "absent"}

\* The chirp body such a request carries.
BodyOf(c) == IF c.payload.kind = "string" THEN c.payload.val ELSE <<>>

Accepted(w) ==
    /\ w.status = 200
    /\ Len(w.body) = 1
    /\ DOMAIN w.body[1] = {"cleaned_body"}

RejectedWith(w, msg) ==
    /\ w.status = 400
    /\ Len(w.body) = 1
    /\ DOMAIN w.body[1] = {"error"}
    /\ w.body[1].error = msg

\* The token, stripped of non-letters and non-digits and lowercased, is one
\* of the three denied words.
Denied(token) == ToLower(stripPunct(token)) \in {kerfuffle, sharbert, fornax}

\* C3: every decodable chirp of at most 140 code points is accepted: 200
\* with a cleaned_body, never "Chirp is too long".
C3_ShortChirpAccepted ==
    \A i \in Conns :
        (ValidateDone(conn[i]) /\ DecodablePost(conn[i])
            /\ Len(BodyOf(conn[i])) <= MaxChirpLen)
        => Accepted(conn[i].w)

\* C4: every decodable chirp of more than 140 code points gets 400 "Chirp is
\* too long", and cleanChirp was not called while serving it.
C4_LongChirpRejectedUncleaned ==
    \A i \in Conns :
        (ValidateDone(conn[i]) /\ DecodablePost(conn[i])
            /\ Len(BodyOf(conn[i])) > MaxChirpLen)
        => /\ RejectedWith(conn[i].w, "Chirp is too long")
           /\ conn[i].cleanCalls = 0

C4_Witness ==
    \E i \in Conns :
        /\ ValidateDone(conn[i]) /\ DecodablePost(conn[i])
        /\ Len(BodyOf(conn[i])) > MaxChirpLen
        /\ \E k \in 1..Len(Split(BodyOf(conn[i]))) : Denied(Split(BodyOf(conn[i]))[k])
        /\ conn[i].w.status = 400

C7_OneOutcomeInOrder ==
    \A i \in Conns :
        ValidateDone(conn[i])
        => LET c == conn[i]
               w == c.w
           IN  /\ Len(w.body) <= 1
               /\ IF c.method # "POST"
                  THEN w.status = 405 /\ w.body = <<>> /\ c.cleanCalls = 0
                  ELSE IF ~DecodablePost(c)
                  THEN RejectedWith(w, "Something went wrong") /\ c.cleanCalls = 0
                  ELSE \/ RejectedWith(w, "Chirp is too long") /\ ~Accepted(w)
                       \/ Accepted(w) /\ ~RejectedWith(w, "Chirp is too long")

C7_Witness ==
    \E i \in Conns :
        /\ ValidateDone(conn[i])
        /\ conn[i].method = "POST"
        /\ conn[i].payload.kind = "garbage"
        /\ Len(conn[i].payload.val) > MaxChirpLen
        /\ RejectedWith(conn[i].w, "Something went wrong")

\* C9: cleaning is idempotent: cleanChirp(cleanChirp(x)) = cleanChirp(x) for
\* every chirp x, and so the cleaned body a request got back is left as it
\* is by another cleaning.
C9_CleanIsIdempotent ==
    \A i \in Conns :
        /\ conn[i].payload.kind = "string"
            => cleanChirp(cleanChirp(conn[i].payload.val)) = cleanChirp(conn[i].payload.val)
        /\ (ValidateDone(conn[i]) /\ Accepted(conn[i].w))
            => cleanChirp(conn[i].w.body[1].cleaned_body) = conn[i].w.body[1].cleaned_body

C9_Witness ==
    \E i \in Conns :
        /\ ValidateDone(conn[i]) /\ Accepted(conn[i].w)
        /\ \E k \in 1..Len(Split(BodyOf(conn[i]))) : Denied(Split(BodyOf(conn[i]))[k])
        /\ conn[i].w.body[1].cleaned_body # BodyOf(conn[i])
        /\ cleanChirp(conn[i].w.body[1].cleaned_body) = conn[i].w.body[1].cleaned_body

---------------------------------------------------------------------------
(* The counter, the reset and the users as seen from outside.              *)

MetricsRead(c) ==
    /\ c.pc = "done"
    /\ c.route = "/admin/metrics"
    /\ c.method = "GET"

ErrorWith(w, code, msg) ==
    /\ w.status = code
    /\ Len(w.body) = 1
    /\ DOMAIN w.body[1] = {"error"}
    /\ w.body[1].error = msg

\* C1: in every state the counter holds exactly the number of increments
\* (one per request through middlewareMetricsInc) made since the last reset,
\* and the metrics page read in that state shows that number.
C1_HitsCountTheIncrements ==
    /\ HitsAreTheAdds
    /\ \A i \in Conns :
          (conn[i].pc = "routed" /\ conn[i].route = "/admin/metrics"
              /\ conn[i].method = "GET")
          => LET page == handlerMetrics(conn[i]).w.body[1].visited
             IN  /\ page >= 0
                 /\ \/ hist.burstAdds = 0 /\ page = hist.adds
                    \/ hist.burstAdds = 1 /\ page - BurstSize = hist.adds

\* C2 as stated: a read that comes in after a reset has returned, with no
\* /app/ request begun since the reset returned, yields 0, whatever requests
\* were already under way when the reset returned.
C2_ReadAfterResetIsZero ==
    \A i \in Conns :
        (MetricsRead(conn[i]) /\ conn[i].sawQuiet)
        => conn[i].w.body[1].visited = 0

\* C2 as amended: a read that follows a reset yields 0 when no increment
\* has taken effect between the reset's Store(0) and the read's Load,
\* whatever the value before the reset and whichever requests are under way.
C2_ReadAfterStoreIsZero ==
    \A i \in Conns :
        (MetricsRead(conn[i]) /\ conn[i].sawFresh)
        => conn[i].w.body[1].visited = 0

C2_Witness ==
    \E i, j \in Conns :
        /\ MetricsRead(conn[i])
        /\ conn[i].sawFresh /\ conn[i].sawQuiet
        /\ conn[i].w.body[1].visited = 0
        /\ hist.erased > 0
        /\ conn[j].pc = "routed" /\ conn[j].route = "/app/"

\* C6: a step of a POST to /admin/reset while Platform is not "dev" changes
\* neither the counter nor the users table, and the request ends in 403;
\* the table is emptied by a reset only when Platform is "dev".
C6_ForbiddenResetChangesNothing ==
    [][\A i \in Conns :
          (/\ conn[i].route = "/admin/reset"
           /\ conn[i].method = "POST"
           /\ conn[i].pc \in {"routed", "stored"}
           /\ conn'[i] # conn[i])
          => /\ Platform # "dev"
                => /\ fileserverHits' = fileserverHits
                   /\ users' = users
                   /\ conn'[i].pc = "done" => conn'[i].w.status = 403
             /\ (users' # users) => Platform = "dev"]_vars

\* C8: the counter is 0 before any request and never negative.
C8_HitsNeverNegative ==
    /\ fileserverHits >= 0
    /\ (accepted = 0 /\ bursts = 0) => fileserverHits = 0

---------------------------------------------------------------------------
(* User creation as seen from outside.                                     *)

\* C10: a POST to /api/users with a decodable body ends after exactly one
\* CreateUser call: in 201 with the id, created_at, updated_at and email of
\* the row the store returned when the call succeeded, in 500 "Failed to
\* create user" when it failed.
C10_OneStoreCallDecides ==
    \A i \in Conns :
        (/\ conn[i].pc = "done"
         /\ conn[i].route = "/api/users"
         /\ DecodablePost(conn[i]))
        => LET c == conn[i]
           IN  /\ c.createCalls = 1
               /\ IF c.stored.err
                  THEN ErrorWith(c.w, 500, "Failed to create user")
                  ELSE /\ c.w.status = 201
                       /\ c.w.sent = "application/json"
                       /\ c.w.body =
                            << [ id         |-> [uuid |-> c.stored.row.ID],
                                 created_at |-> [rfc3339 |-> c.stored.row.CreatedAt.sec],
                                 updated_at |-> [rfc3339 |-> c.stored.row.UpdatedAt.sec],
                                 email      |-> c.stored.row.Email ] >>

C10_Witness ==
    \E i \in Conns :
        /\ conn[i].pc = "done"
        /\ conn[i].route = "/api/users"
        /\ DecodablePost(conn[i])
        /\ conn[i].createCalls = 1
        /\ ~conn[i].stored.err
        /\ conn[i].stored.row.ID > 1
        /\ conn[i].stored.row.CreatedAt.nsec # 0
        /\ conn[i].w.status = 201
        /\ conn[i].stored.row \in users

---------------------------------------------------------------------------
(* What moves the counter.                                                 *)

\* The integer h2 is the integer h plus n, for 0 <= n <= MaxInt32 (stated
\* by differences that stay within the 32 bits TLC computes in).
GrewBy(h, h2, n) ==
    IF (h >= 0) = (h2 >= 0)
    THEN h2 - h = n
    ELSE h < 0 /\ h2 - n = h

\* Connection i takes a step of its request.
Steps(i) == conn[i].pc \in {"routed", "stored"} /\ conn'[i] # conn[i]

\* C11: the counter changes in two ways only. A request routed to /app/
\* makes it grow by exactly 1, before anything of the file is written (and
\* a burst of such requests by 1 each); a POST to /admin/reset sets it to
\* 0. No other step changes it: not chirp validation, the health check,
\* user creation, the redirects, the metrics page, nor any request answered
\* 405, a non-POST to /admin/reset included.
C11_OnlyAppAndResetMoveTheCounter ==
    [][/\ \A i \in Conns :
            Steps(i) =>
               IF conn[i].route = "/app/"
               THEN /\ GrewBy(fileserverHits, fileserverHits', 1)
                    /\ ~conn[i].w.wroteHeader
                    /\ conn'[i].w.wroteHeader
               ELSE IF /\ conn[i].route = "/admin/reset"
                       /\ conn[i].method = "POST"
                       /\ conn[i].pc = "routed"
               THEN fileserverHits' = 0
               ELSE fileserverHits' = fileserverHits
       /\ (\A i \in Conns : ~Steps(i))
            => IF bursts' # bursts
               THEN GrewBy(fileserverHits, fileserverHits', BurstSize)
               ELSE fileserverHits' = fileserverHits
       /\ \A i \in Conns :
            (Steps(i) /\ conn'[i].pc = "done" /\ conn'[i].w.status = 405)
               => fileserverHits' = fileserverHits]_vars

=============================================================================
